---------------------------- MODULE Spec2Model ----------------------------
(***************************************************************************)
(* GoogleSheetsService (services/sheets.js) and its callers: the sheet as  *)
(* a record store.  The remote sheet is a grid of text cells; the service  *)
(* keeps this.sheets, this.sheetTitle, this.columnHeaders,                 *)
(* this.syncInterval and this.lastSyncTime.  Every async method is cut at  *)
(* its awaits: one action per piece of code that runs between two awaits   *)
(* (JavaScript runs such a piece without interruption), so concurrent      *)
(* calls interleave exactly at the remote requests.                        *)
(***************************************************************************)
EXTENDS Integers, Sequences, FiniteSets, TLC

VARIABLES
  sheet,          \* the remote sheet: rows of cells, sheet[1] is row 1
  sheets,         \* this.sheets is set (the API client exists)
  sheetTitle,     \* this.sheetTitle, NullVal until the first sheet's title is read
  columnHeaders,  \* this.columnHeaders: [loaded, cols]; loaded = FALSE is null
  syncInterval,   \* this.syncInterval: NoTimer (null) or the id setInterval gave
  lastSyncTime,   \* this.lastSyncTime: NoTime (null) or the Date taken
  timers,         \* the intervals the event loop still holds (not cleared)
  nextTimer,      \* the next id setInterval hands out
  clock,          \* the value the next new Date() gives
  calls,          \* the calls in flight, one record per call slot
  facade,         \* the lifecycle state the initialize() calls so far amount to
  stopped,        \* cleanup() has returned
  initAfterStop,  \* an initialize() was called after cleanup() had returned
  lastWriter      \* the slot of the call whose write was committed last, or 0

vars == <<sheet, sheets, sheetTitle, columnHeaders, syncInterval, lastSyncTime,
          timers, nextTimer, clock, calls, facade, stopped, initAfterStop,
          lastWriter>>

\* everything but the calls
service == <<sheet, sheets, sheetTitle, columnHeaders, syncInterval, lastSyncTime,
             timers, nextTimer, clock, facade, stopped, initAfterStop, lastWriter>>

---------------------------------------------------------------------------
(* Bounds of the model. *)

\* the call slots: at most this many calls are in flight at once
MaxCalls == 2
\* the data rows (after row 1) of the sheets the model starts from
MaxRows == 2
\* the Dates taken: a call that would take a later one is not started
MaxClock == 2
\* the intervals setInterval hands out
MaxTimers == 2
\* the columns of the widest schema the model starts from
MaxCols == 27

---------------------------------------------------------------------------
(* Values. *)

\* JavaScript null / undefined as a record value, a patch value or a field
NullVal == "<null>"
NoTimer == 0
NoTime == 0
SheetName == "Sheet1"

Procs == 1..MaxCalls

Range(s) == {s[i] : i \in 1..Len(s)}

Min(a, b) == IF a < b THEN a ELSE b

\* the first n cells of a row
Take(row, n) == SubSeq(row, 1, Min(n, Len(row)))

\* a row as the API returns and stores it: trailing blank cells do not exist
RECURSIVE Trim(_)
Trim(row) ==
  IF row = <<>> THEN <<>>
  ELSE IF row[Len(row)] = "" THEN Trim(SubSeq(row, 1, Len(row) - 1))
  ELSE row

\* rows as the API returns them: trailing empty rows do not exist
RECURSIVE TrimRows(_)
TrimRows(rows) ==
  IF rows = <<>> THEN <<>>
  ELSE IF rows[Len(rows)] = <<>> THEN TrimRows(SubSeq(rows, 1, Len(rows) - 1))
  ELSE rows


---------------------------------------------------------------------------
(* The remote sheet store (spreadsheets.values.get / values.update). *)

\* String.fromCharCode(65 + headers.length - 1): the char code of lastCol
LastColCode(n) == 65 + n - 1

\* the range "A..:<lastCol>" names columns only when lastCol is a letter A..Z
RangeParses(n) == LastColCode(n) \in 65..90

\* values.get over columns A..lastCol from row `first` down: each row cut to
\* the range's columns, without trailing blank cells and trailing empty rows
ValuesGet(sh, first, n) ==
  TrimRows([i \in 1..(IF Len(sh) >= first THEN Len(sh) - first + 1 ELSE 0) |->
              Trim(Take(sh[i + first - 1], n))])

\* the header row as values.get of "1:1" gives it: response.data.values?.[0] || []
HeaderRow(sh) == IF Len(sh) >= 1 THEN Trim(sh[1]) ELSE <<>>

\* the cell of a row, "" where the row has none
Cell(row, c) == IF c <= Len(row) THEN row[c] ELSE ""

\* values.update of the one row rowNo over columns A..lastCol with `data`:
\* a null in the data leaves its cell as it is (the API skips null values),
\* any other value replaces the cell; cells right of the range are kept
ValuesUpdate(sh, rowNo, n, data) ==
  LET old == IF rowNo <= Len(sh) THEN sh[rowNo] ELSE <<>>
      width == IF Len(old) > n THEN Len(old) ELSE n
      new == Trim([c \in 1..width |->
                     IF c <= n /\ data[c] # NullVal THEN data[c] ELSE Cell(old, c)])
      grown == [r \in 1..(IF rowNo > Len(sh) THEN rowNo ELSE Len(sh)) |->
                  IF r = rowNo THEN new
                  ELSE IF r <= Len(sh) THEN sh[r] ELSE <<>>]
  IN TrimRows(grown)

---------------------------------------------------------------------------
(* The pure parts of syncSheet, getContentById and updateContent. *)

\* Item without the "|| null": a blank cell is shown as it is
ItemBlank(headers, row) ==
  [h \in Range(headers) |->
     LET i == CHOOSE j \in 1..Len(headers) :
                 /\ headers[j] = h
                 /\ \A k \in 1..Len(headers) : headers[k] = h => k <= j
     IN Cell(row, i)]

\* headers.forEach((header, index) => item[header] = row[index] || null):
\* a later column of the same name overwrites an earlier one
Item(headers, row) ==
  [h \in Range(headers) |->
     LET i == CHOOSE j \in 1..Len(headers) :
                 /\ headers[j] = h
                 /\ \A k \in 1..Len(headers) : headers[k] = h => k <= j
     IN IF Cell(row, i) # "" THEN row[i] ELSE NullVal]

\* rows.map(row => item)
SyncRecords(headers, rows) == [i \in 1..Len(rows) |-> Item(headers, rows[i])]

\* allContent.find(item => item['Post ID'] === id): <<item>>, or <<>> for undefined
IdField == "Post ID"
FindItem(items, id) ==
  LET hits == {i \in 1..Len(items) :
                 IdField \in DOMAIN items[i] /\ items[i][IdField] = id}
  IN IF hits = {} THEN <<>>
     ELSE <<items[CHOOSE i \in hits : \A j \in hits : i <= j]>>

\* FindRowIndex without "index > 0": the header row is scanned too
FindRowIndexFromHeader(rows, id) ==
  LET hits == {i \in 0..(Len(rows) - 1) :
                 Len(rows[i + 1]) >= 1 /\ rows[i + 1][1] = id}
  IN IF hits = {} THEN -1
     ELSE CHOOSE i \in hits : \A j \in hits : i <= j

\* rows.findIndex((row, index) => index > 0 && row[0] === id), 0-based, -1 if none
FindRowIndex(rows, id) ==
  LET hits == {i \in 0..(Len(rows) - 1) :
                 i > 0 /\ Len(rows[i + 1]) >= 1 /\ rows[i + 1][1] = id}
  IN IF hits = {} THEN -1
     ELSE CHOOSE i \in hits : \A j \in hits : i <= j

\* NewRowData with the precedence swapped: existingData[colIndex] || updates[header]
NewRowDataExistingFirst(headers, updates, existingData) ==
  [c \in 1..Len(headers) |->
     IF Cell(existingData, c) # "" THEN existingData[c]
     ELSE IF headers[c] \in DOMAIN updates THEN updates[headers[c]]
     ELSE ""]

\* NewRowData that does not keep the existing values: updates[header] || ''
NewRowDataPatchOnly(headers, updates, existingData) ==
  [c \in 1..Len(headers) |->
     IF headers[c] \in DOMAIN updates THEN updates[headers[c]] ELSE ""]

\* headers.map((header, colIndex) =>
\*   updates[header] !== undefined ? updates[header] : existingData[colIndex] || '')
NewRowData(headers, updates, existingData) ==
  [c \in 1..Len(headers) |->
     IF headers[c] \in DOMAIN updates THEN updates[headers[c]]
     ELSE Cell(existingData, c)]

---------------------------------------------------------------------------
(* The calls in flight.  A call is the activation of one async method; pc is
   the await it is suspended at. *)

Idle ==
  [op |-> "none", pc |-> "idle", id |-> "", updates |-> <<>>, headers |-> <<>>,
   rows |-> <<>>, rowIndex |-> -1, newRowData |-> <<>>, result |-> "none",
   value |-> <<>>, bornIn |-> "none", snap |-> <<>>, before |-> <<>>,
   after |-> <<>>, saw |-> {}, prev |-> 0,
   route |-> "none", parent |-> 0, status |-> "", feedback |-> "",
   http |-> 0, cause |-> "none"]

\* the call slots are taken lowest first
Free(p) == calls[p].pc = "idle" /\ \A q \in Procs : q < p => calls[q].pc # "idle"

InFlight(ops) == {p \in Procs : calls[p].op \in ops /\ calls[p].pc \notin {"idle", "done"}}

\* the validateSheet() calls that have not returned
Validating ==
  {p \in Procs : calls[p].route = "validate"
                   /\ ~(calls[p].op = "validateSheet" /\ calls[p].pc = "done")}

\* the call may still take a Date / an interval id within the model's bounds
DateLeft ==
  clock + Cardinality(InFlight({"syncSheet", "getContentById", "tick"}) \cup Validating)
    <= MaxClock
TimerLeft == nextTimer + Cardinality(InFlight({"initialize"})) <= MaxTimers

Finish(c, res) == [c EXCEPT !.pc = "done", !.result = res]

\* startPeriodicSync without the clearInterval of the interval in the field
startPeriodicSyncNoClear ==
  /\ timers' = timers \cup {nextTimer}
  /\ syncInterval' = nextTimer
  /\ nextTimer' = nextTimer + 1

\* startPeriodicSync(): clear the interval the field names, install a new one
startPeriodicSync ==
  /\ timers' = (IF syncInterval # NoTimer THEN timers \ {syncInterval} ELSE timers)
                 \cup {nextTimer}
  /\ syncInterval' = nextTimer
  /\ nextTimer' = nextTimer + 1

\* initialize() up to its first await: auth and this.sheets are set, then
\* spreadsheets.get is requested
initializeCalled(p, c0) ==
  /\ TimerLeft
  /\ sheets' = TRUE
  /\ calls' = [calls EXCEPT ![p] =
                 [c0 EXCEPT !.op = "initialize", !.pc = "get", !.bornIn = facade]]
  /\ facade' = "Initializing"
  /\ initAfterStop' = (initAfterStop \/ stopped)
  /\ UNCHANGED <<sheet, sheetTitle, columnHeaders, syncInterval, lastSyncTime,
                 timers, nextTimer, clock, stopped, lastWriter>>

initialize(p) == Free(p) /\ initializeCalled(p, Idle)

\* spreadsheets.get answers: the title is kept and loadColumnHeaders() requests
\* row 1; or it fails and initialize() rethrows
initializeGot(p) ==
  /\ calls[p].op = "initialize" /\ calls[p].pc = "get"
  /\ \/ /\ sheetTitle' = SheetName
        /\ calls' = [calls EXCEPT ![p].pc = "headers"]
        /\ UNCHANGED facade
     \/ /\ calls' = [calls EXCEPT ![p] = Finish(@, "RemoteError")]
        /\ facade' = "Failed"
        /\ UNCHANGED sheetTitle
  /\ UNCHANGED <<sheet, sheets, columnHeaders, syncInterval, lastSyncTime, timers,
                 nextTimer, clock, stopped, initAfterStop,
                 lastWriter>>

\* initializeLoaded with startPeriodicSync() ahead of the try: the timer is
\* started whether the load of row 1 succeeds or fails
initializeLoadedTimerFirst(p) ==
  /\ calls[p].op = "initialize" /\ calls[p].pc = "headers"
  /\ startPeriodicSync
  /\ \/ /\ columnHeaders' = [loaded |-> TRUE, cols |-> HeaderRow(sheet)]
        /\ calls' = [calls EXCEPT ![p] = Finish(@, "ok")]
        /\ facade' = "Ready"
     \/ /\ calls' = [calls EXCEPT ![p] = Finish(@, "RemoteError")]
        /\ facade' = "Failed"
        /\ UNCHANGED columnHeaders
  /\ UNCHANGED <<sheet, sheets, sheetTitle, lastSyncTime, clock, stopped,
                 initAfterStop,
                 lastWriter>>

\* row 1 answers: the headers are cached and startPeriodicSync() runs; or the
\* read fails and initialize() rethrows
initializeLoaded(p) ==
  /\ calls[p].op = "initialize" /\ calls[p].pc = "headers"
  /\ \/ /\ columnHeaders' = [loaded |-> TRUE, cols |-> HeaderRow(sheet)]
        /\ startPeriodicSync
        /\ calls' = [calls EXCEPT ![p] = Finish(@, "ok")]
        /\ facade' = "Ready"
     \/ /\ calls' = [calls EXCEPT ![p] = Finish(@, "RemoteError")]
        /\ facade' = "Failed"
        /\ UNCHANGED <<columnHeaders, syncInterval, timers, nextTimer>>
  /\ UNCHANGED <<sheet, sheets, sheetTitle, lastSyncTime, clock, stopped,
                 initAfterStop,
                 lastWriter>>

\* the head of syncSheet() and of updateContent(): the initialized guard, then
\* getColumnHeaders(), which loads row 1 when no headers are cached, then the
\* request of the data range
Begin(c0, op, id, updates) ==
  LET c == [c0 EXCEPT !.op = op, !.id = id, !.updates = updates,
                      !.bornIn = facade, !.result = "none"]
  IN IF ~sheets \/ sheetTitle = NullVal THEN Finish(c, "NotInitialized")
     ELSE IF columnHeaders.loaded
            THEN [c EXCEPT !.pc = "read", !.headers = columnHeaders.cols]
     ELSE [c EXCEPT !.pc = "load"]

Enter(p, op, id, updates) ==
  /\ Free(p)
  /\ calls' = [calls EXCEPT ![p] = Begin(Idle, op, id, updates)]
  /\ UNCHANGED <<sheet, sheets, sheetTitle, columnHeaders, syncInterval,
                 lastSyncTime, timers, nextTimer, clock, facade, stopped,
                 initAfterStop,
                 lastWriter>>

syncSheet(p) == DateLeft /\ Enter(p, "syncSheet", "", <<>>)

getContentById(p, id) == DateLeft /\ Enter(p, "getContentById", id, <<>>)

updateContent(p, id, updates) == Enter(p, "updateContent", id, updates)

\* the interval fires: its callback awaits syncSheet()
tick(p) ==
  /\ timers # {}
  /\ DateLeft
  /\ Enter(p, "tick", "", <<>>)

\* getColumnHeaders() had no cached headers: loadColumnHeaders() answers
loadColumnHeaders(p) ==
  /\ calls[p].op # "initialize" /\ calls[p].pc = "load"
  /\ \/ /\ columnHeaders' = [loaded |-> TRUE, cols |-> HeaderRow(sheet)]
        /\ calls' = [calls EXCEPT ![p].pc = "read", ![p].headers = HeaderRow(sheet)]
     \/ /\ calls' = [calls EXCEPT ![p] = Finish(@, "RemoteError")]
        /\ UNCHANGED columnHeaders
  /\ UNCHANGED <<sheet, sheets, sheetTitle, syncInterval, lastSyncTime, timers,
                 nextTimer, clock, facade, stopped, initAfterStop,
                 lastWriter>>

\* syncSheet(): the read of A2:lastCol answers with the rows, the Date is taken
\* and the rows are mapped (getContentById then finds its item); or it fails
\* and the error is rethrown
syncSheetOk(p) ==
  /\ RangeParses(Len(calls[p].headers))
  /\ LET c == calls[p]
         rows == ValuesGet(sheet, 2, Len(c.headers))
         items == SyncRecords(c.headers, rows)
     IN calls' = [calls EXCEPT ![p] =
          [Finish(c, "ok") EXCEPT
             !.rows = rows, !.snap = sheet,
             !.value = IF c.op = "getContentById" THEN FindItem(items, c.id)
                       ELSE items]]
  /\ lastSyncTime' = clock
  /\ clock' = clock + 1

\* syncSheetFailed with the Date taken before the outcome is known
syncSheetFailedStamped(p) ==
  /\ calls' = [calls EXCEPT ![p] = Finish(@, "RemoteError")]
  /\ lastSyncTime' = clock
  /\ clock' = clock + 1

syncSheetFailed(p) ==
  /\ calls' = [calls EXCEPT ![p] = Finish(@, "RemoteError")]
  /\ UNCHANGED <<lastSyncTime, clock>>

syncSheetRead(p) ==
  /\ calls[p].op \in {"syncSheet", "getContentById"} /\ calls[p].pc = "read"
  /\ syncSheetOk(p) \/ syncSheetFailed(p)
  /\ UNCHANGED <<sheet, sheets, sheetTitle, columnHeaders, syncInterval, timers,
                 nextTimer, facade, stopped, initAfterStop,
                 lastWriter>>

\* the catch of the interval's callback with the interval cleared in it
tickCatchClears ==
  /\ timers' = timers \ {syncInterval}
  /\ UNCHANGED syncInterval

\* the catch of the interval's callback: the error is logged, nothing else
tickCatch == UNCHANGED <<timers, syncInterval>>

\* the syncSheet() the interval's callback awaits answers: the callback ends,
\* or syncSheet() throws and the callback's catch takes the error
tickRead(p) ==
  /\ calls[p].op = "tick" /\ calls[p].pc = "read"
  /\ \/ syncSheetOk(p) /\ UNCHANGED <<timers, syncInterval>>
     \/ syncSheetFailed(p) /\ tickCatch
  /\ UNCHANGED <<sheet, sheets, sheetTitle, columnHeaders,
                 nextTimer, facade, stopped, initAfterStop,
                 lastWriter>>

\* updateContent(): the read of A:lastCol answers; the row is located, the new
\* row is built and its write is requested; no row: not found; or the read fails
updateContentRead(p) ==
  /\ calls[p].op = "updateContent" /\ calls[p].pc = "read"
  /\ \/ /\ RangeParses(Len(calls[p].headers))
        /\ LET c == calls[p]
               rows == ValuesGet(sheet, 1, Len(c.headers))
               rowIndex == FindRowIndex(rows, c.id)
               seen == [c EXCEPT !.rows = rows, !.snap = sheet, !.rowIndex = rowIndex,
                                 !.saw = {q \in Procs : /\ calls[q].op = "updateContent"
                                                        /\ calls[q].pc = "done"
                                                        /\ calls[q].result = "ok"}]
           IN calls' = [calls EXCEPT ![p] =
                IF rowIndex = -1 THEN Finish(seen, "NotFound")
                ELSE [seen EXCEPT !.pc = "write",
                        !.newRowData = NewRowData(c.headers, c.updates, rows[rowIndex + 1])]]
     \/ calls' = [calls EXCEPT ![p] = Finish(@, "RemoteError")]
  /\ UNCHANGED <<sheet, sheets, sheetTitle, columnHeaders, syncInterval,
                 lastSyncTime, timers, nextTimer, clock, facade, stopped,
                 initAfterStop,
                 lastWriter>>

\* updateContent(): the write of row rowIndex + 1 over A..lastCol is done;
\* or it fails and nothing is written
\* RowNumber without the "+ 1": the 0-based index used as the row number
RowNumberZeroBased(rowIndex) == rowIndex

\* the row of the range `A${rowIndex + 1}:${lastCol}${rowIndex + 1}`
RowNumber(rowIndex) == rowIndex + 1

updateContentWrite(p) ==
  /\ calls[p].op = "updateContent" /\ calls[p].pc = "write"
  /\ \/ LET c == calls[p]
            new == ValuesUpdate(sheet, RowNumber(c.rowIndex), Len(c.headers),
                                c.newRowData)
        IN /\ sheet' = new
           /\ calls' = [calls EXCEPT ![p] =
                [Finish(c, "ok") EXCEPT !.before = sheet, !.after = new,
                                        !.prev = lastWriter]]
           /\ lastWriter' = p
     \/ /\ calls' = [calls EXCEPT ![p] = Finish(@, "RemoteError")]
        /\ UNCHANGED <<sheet, lastWriter>>
  /\ UNCHANGED <<sheets, sheetTitle, columnHeaders, syncInterval, lastSyncTime,
                 timers, nextTimer, clock, facade, stopped, initAfterStop>>

\* validateSheet() up to its first await, the configuration being complete:
\* initialize() is called when this.sheets is not set, else spreadsheets.get
\* is requested
validateSheet(p) ==
  /\ Free(p)
  /\ DateLeft
  /\ LET c == [Idle EXCEPT !.route = "validate"]
     IN IF ~sheets THEN initializeCalled(p, c)
        ELSE /\ calls' = [calls EXCEPT ![p] =
                  [c EXCEPT !.op = "validateSheet", !.pc = "probe", !.bornIn = facade]]
             /\ UNCHANGED <<sheets, facade, initAfterStop>>
  /\ UNCHANGED <<sheet, sheetTitle, columnHeaders, syncInterval, lastSyncTime,
                 timers, nextTimer, clock, stopped, lastWriter>>

\* validateSheet(): the initialize() it awaited has returned, spreadsheets.get
\* is requested; or it has thrown and the catch returns the error status
validateInitialized(p) ==
  /\ calls[p].route = "validate"
  /\ calls[p].op = "initialize" /\ calls[p].pc = "done"
  /\ calls' = [calls EXCEPT ![p] =
       IF @.result = "ok"
         THEN [@ EXCEPT !.op = "validateSheet", !.pc = "probe", !.result = "none"]
         ELSE [@ EXCEPT !.op = "validateSheet", !.result = "error"]]
  /\ UNCHANGED service

\* validateSheet(): spreadsheets.get answers with the sheets, the Date is kept
\* in this.lastSyncTime and the connected status is returned; or it fails (or
\* answers without sheets) and the catch returns the error status
validateProbed(p) ==
  /\ calls[p].op = "validateSheet" /\ calls[p].pc = "probe"
  /\ \/ /\ calls' = [calls EXCEPT ![p] = Finish(@, "connected")]
        /\ lastSyncTime' = clock
        /\ clock' = clock + 1
     \/ /\ calls' = [calls EXCEPT ![p] = Finish(@, "error")]
        /\ UNCHANGED <<lastSyncTime, clock>>
  /\ UNCHANGED <<sheet, sheets, sheetTitle, columnHeaders, syncInterval, timers,
                 nextTimer, facade, stopped, initAfterStop, lastWriter>>

\* cleanup(): the interval the field names is cleared; the field is kept
cleanup ==
  /\ timers' = IF syncInterval # NoTimer THEN timers \ {syncInterval} ELSE timers
  /\ stopped' = TRUE
  /\ UNCHANGED <<sheet, sheets, sheetTitle, columnHeaders, syncInterval,
                 lastSyncTime, nextTimer, clock, calls, facade, initAfterStop,
                 lastWriter>>

\* startPeriodicSync() called on its own
startPeriodicSyncCall ==
  /\ TimerLeft
  /\ startPeriodicSync
  /\ UNCHANGED <<sheet, sheets, sheetTitle, columnHeaders, lastSyncTime, clock,
                 calls, facade, stopped, initAfterStop, lastWriter>>

\* the caller has taken the call's outcome: the slot is free again
Return(p) ==
  /\ calls[p].pc = "done"
  /\ p \notin Validating
  /\ calls' = [q \in Procs |->
                 IF q = p THEN Idle
                 ELSE [calls[q] EXCEPT !.saw = @ \ {p},
                                       !.prev = IF @ = p THEN 0 ELSE @]]
  /\ lastWriter' = IF lastWriter = p THEN 0 ELSE lastWriter
  /\ UNCHANGED <<sheet, sheets, sheetTitle, columnHeaders, syncInterval,
                 lastSyncTime, timers, nextTimer, clock, facade, stopped,
                 initAfterStop>>

---------------------------------------------------------------------------
(* The service from its construction on: initialize, the interval, cleanup,
   and calls of every method, on a small sheet. *)

\* new GoogleSheetsService()
Constructed ==
  /\ sheets = FALSE
  /\ sheetTitle = NullVal
  /\ columnHeaders = [loaded |-> FALSE, cols |-> <<>>]
  /\ syncInterval = NoTimer
  /\ lastSyncTime = NoTime
  /\ timers = {}
  /\ nextTimer = 1
  /\ clock = 1
  /\ calls = [p \in Procs |-> Idle]
  /\ facade = "Uninitialized"
  /\ stopped = FALSE
  /\ initAfterStop = FALSE
  /\ lastWriter = 0

LifeSheets ==
  { <<<<"Post ID", "Status">>, <<"a", "Draft">>>>,
    <<>> }

LifePatches == { "Status" :> "Approved" }

Init == Constructed /\ sheet \in LifeSheets

Next ==
  \/ \E p \in Procs : initialize(p)
  \/ \E p \in Procs : initializeGot(p)
  \/ \E p \in Procs : initializeLoaded(p)
  \/ \E p \in Procs : syncSheet(p)
  \/ \E p \in Procs : getContentById(p, "a")
  \/ \E p \in Procs : \E u \in LifePatches : updateContent(p, "a", u)
  \/ \E p \in Procs : tick(p)
  \/ \E p \in Procs : loadColumnHeaders(p)
  \/ \E p \in Procs : syncSheetRead(p)
  \/ \E p \in Procs : tickRead(p)
  \/ \E p \in Procs : updateContentRead(p)
  \/ \E p \in Procs : updateContentWrite(p)
  \/ \E p \in Procs : Return(p)
  \/ cleanup

Spec == Init /\ [][Next]_vars

---------------------------------------------------------------------------
(* The lifecycle and the timer alone, from the construction on: initialize(),
   validateSheet(), startPeriodicSync() and cleanup() called at any moment and
   in flight together, and the interval's ticks. *)

\* the sheet the lifecycle runs on
LifeSheet == <<<<"Post ID", "Status">>, <<"a", "Draft">>>>

InitLife == Constructed /\ sheet = LifeSheet

NextLife ==
  \/ \E p \in Procs : initialize(p)
  \/ \E p \in Procs : initializeGot(p)
  \/ \E p \in Procs : initializeLoaded(p)
  \/ \E p \in Procs : validateSheet(p)
  \/ \E p \in Procs : validateInitialized(p)
  \/ \E p \in Procs : validateProbed(p)
  \/ \E p \in Procs : tick(p)
  \/ \E p \in Procs : tickRead(p)
  \/ \E p \in Procs : Return(p)
  \/ startPeriodicSyncCall
  \/ cleanup

SpecLife == InitLife /\ [][NextLife]_vars

---------------------------------------------------------------------------
(* The data operations on an initialized service: sync, getById and update on
   every sheet of a bounded set, by a caller that awaits each call and takes
   its outcome before it makes the next. *)

Schemas ==
  { <<"Post ID", "Status">>,
    <<"ID", "Status">>,
    <<"Post ID", "Status", "Topic">> }

OpsIds == {"a", "b"}

\* a data row: identifier, status, a third cell (the Topic, or a cell right of
\* a two-column schema), or an empty row
OpsRows ==
  {Trim(<<i, st, t>>) : i \in OpsIds, st \in {"Draft", ""}, t \in {"", "n"}}
    \cup {<<>>}

OpsSheets ==
  {TrimRows(<<h>> \o rs) :
     h \in Schemas, rs \in UNION {[1..k -> OpsRows] : k \in 0..MaxRows}}

\* the patches: a value, the empty string, an explicit null, a column some
\* schemas lack, a key no schema has, and no key at all
OpsPatches ==
  { <<>>,
    "Status" :> "Approved",
    "Status" :> "",
    "Status" :> NullVal,
    "Topic" :> "t",
    ("Status" :> "Approved") @@ ("Bogus" :> "z") }

\* the identifiers callers pass: the rows' ones and the header cell of column A
CallIds == OpsIds \cup {IdField}

\* the service as initialize() leaves it when both its reads succeed
AfterInitialize ==
  /\ sheets = TRUE
  /\ sheetTitle = SheetName
  /\ columnHeaders = [loaded |-> TRUE, cols |-> HeaderRow(sheet)]
  /\ syncInterval = 1
  /\ timers = {1}
  /\ nextTimer = 2
  /\ facade = "Ready"

\* the service as initialize() leaves it when its read of row 1 fails
AfterFailedLoad ==
  /\ sheets = TRUE
  /\ sheetTitle = SheetName
  /\ columnHeaders = [loaded |-> FALSE, cols |-> <<>>]
  /\ syncInterval = NoTimer
  /\ timers = {}
  /\ nextTimer = 1
  /\ facade = "Failed"

InitOps ==
  /\ sheet \in OpsSheets
  /\ AfterInitialize \/ AfterFailedLoad
  /\ lastSyncTime = NoTime
  /\ clock = 1
  /\ calls = [p \in Procs |-> Idle]
  /\ stopped = FALSE
  /\ initAfterStop = FALSE
  /\ lastWriter = 0

\* no call is in flight or waits to be taken
Quiet == \A q \in Procs : calls[q].pc = "idle"

NextOps ==
  \/ \E p \in Procs : Quiet /\ syncSheet(p)
  \/ \E p \in Procs : \E id \in OpsIds : Quiet /\ getContentById(p, id)
  \/ \E p \in Procs : \E id \in CallIds : \E u \in OpsPatches :
       Quiet /\ updateContent(p, id, u)
  \/ \E p \in Procs : loadColumnHeaders(p)
  \/ \E p \in Procs : syncSheetRead(p)
  \/ \E p \in Procs : updateContentRead(p)
  \/ \E p \in Procs : updateContentWrite(p)
  \/ \E p \in Procs : Return(p)

SpecOps == InitOps /\ [][NextOps]_vars

---------------------------------------------------------------------------
(* Concurrent calls on an initialized service: MaxCalls updates, lookups and
   syncs of one identifier, started at any moment and in flight together in
   every interleaving, on a few small sheets.  No outcome is taken, so every
   call made stays on view. *)

ConcSheets ==
  { <<<<"Post ID", "Status", "Topic">>, <<"x", "Draft", "t0">>>>,
    <<<<"Post ID", "Status", "Topic">>, <<"y", "Draft">>, <<"x", "Draft", "t0">>>>,
    <<<<"Post ID", "Status", "Topic">>, <<"x">>, <<"x", "Draft", "t0">>>>,
    <<<<"ID", "Status">>, <<"a", "Draft">>, <<"x", "Approved", "n">>>> }

PatchA == "Status" :> "A"
PatchB == "Status" :> "B"
PatchT == "Topic" :> "T"

ConcPatches == {PatchA, PatchB, PatchT}

InitConc ==
  /\ sheet \in ConcSheets
  /\ AfterInitialize
  /\ lastSyncTime = NoTime
  /\ clock = 1
  /\ calls = [p \in Procs |-> Idle]
  /\ stopped = FALSE
  /\ initAfterStop = FALSE
  /\ lastWriter = 0

NextConc ==
  \/ \E p \in Procs : syncSheet(p)
  \/ \E p \in Procs : getContentById(p, "x")
  \/ \E p \in Procs : \E u \in ConcPatches : updateContent(p, "x", u)
  \/ \E p \in Procs : syncSheetRead(p)
  \/ \E p \in Procs : updateContentRead(p)
  \/ \E p \in Procs : updateContentWrite(p)

SpecConc == InitConc /\ [][NextConc]_vars

---------------------------------------------------------------------------
(* The HTTP routes over the service (routes/content.js): POST /status and
   POST /sync requests on an initialized service, in flight together with each
   other and with a direct update, in every interleaving.  A request holds a
   call slot; the calls of a /sync request hold the slots after it. *)

\* res.status(code).json(...): the request is answered
Reply(c, code, cause) == [c EXCEPT !.pc = "done", !.http = code, !.cause = cause]

\* new Date().toISOString() in a request
Now == "<now>"

\* the catch of POST /status: error.message.includes('not found') ? 404 : 500
statusCatch(result) == IF result = "NotFound" THEN 404 ELSE 500

\* the catch of POST /sync: res.status(500)
syncCatch(result) == 500

\* { ...content, 'Status': status }, then the feedback and the approval fields
StatusUpdates(content, status, feedback) ==
  ("Status" :> status)
    @@ (IF feedback # ""
          THEN ("Last Feedback" :> feedback) @@ ("Last Feedback Date" :> Now)
          ELSE <<>>)
    @@ (IF status = "Approved"
          THEN ("Date Approved" :> Now) @@ ("Approved By" :> "System")
          ELSE <<>>)
    @@ content

\* POST /status up to its first await: the body is checked, then
\* getContentById(id) is called
postStatus(p, id, status, feedback) ==
  /\ Free(p)
  /\ DateLeft
  /\ calls' = [calls EXCEPT ![p] =
       LET c == [Idle EXCEPT !.route = "status", !.id = id, !.status = status,
                             !.feedback = feedback]
       IN IF id = "" \/ status = "" THEN Reply(c, 400, "Invalid")
          ELSE Begin(c, "getContentById", id, <<>>)]
  /\ UNCHANGED service

\* POST /status: getContentById has answered; no content is the not-found
\* error, else the updates are built and updateContent(id, updates) is called
statusGot(p) ==
  /\ calls[p].route = "status" /\ calls[p].http = 0
  /\ calls[p].op = "getContentById" /\ calls[p].pc = "done"
  /\ calls' = [calls EXCEPT ![p] =
       LET c == calls[p]
       IN IF c.result # "ok" THEN Reply(c, statusCatch(c.result), c.result)
          ELSE IF c.value = <<>> THEN Reply(c, statusCatch("NotFound"), "NotFound")
          ELSE Begin(c, "updateContent", c.id,
                     StatusUpdates(c.value[1], c.status, c.feedback))]
  /\ UNCHANGED service

\* POST /status: updateContent has answered
statusUpdated(p) ==
  /\ calls[p].route = "status" /\ calls[p].http = 0
  /\ calls[p].op = "updateContent" /\ calls[p].pc = "done"
  /\ calls' = [calls EXCEPT ![p] =
       IF @.result = "ok" THEN Reply(@, 200, "ok")
       ELSE Reply(@, statusCatch(@.result), @.result)]
  /\ UNCHANGED service

\* the keys of an item of POST /sync and the columns they are mapped to
ItemFields == ("id" :> "Post ID") @@ ("topic" :> "Topic") @@ ("status" :> "Status")

\* items.map(item => ({ 'Post ID': item.id, ... })): a key the item lacks is
\* undefined in the mapped item
MapItem(item) ==
  [h \in {ItemFields[k] : k \in DOMAIN item} |->
     item[CHOOSE k \in DOMAIN item : ItemFields[k] = h]]

\* POST /sync up to its await: the body is checked, the items are mapped and
\* updateContent is called for each of them, one after the other; Promise.all
\* is awaited
postSync(p, body) ==
  /\ Free(p)
  /\ LET n == Len(body.items)
         c == [Idle EXCEPT !.route = "sync", !.op = "postSync"]
     IN IF ~body.isArray
          THEN calls' = [calls EXCEPT ![p] = Reply(c, 400, "Invalid")]
          ELSE /\ \A i \in 1..n : p + i \in Procs /\ calls[p + i].pc = "idle"
               /\ calls' = [q \in Procs |->
                    IF q = p THEN [c EXCEPT !.pc = "all"]
                    ELSE IF q \in (p + 1)..(p + n)
                      THEN Begin([Idle EXCEPT !.parent = p], "updateContent",
                                 MapItem(body.items[q - p])[IdField],
                                 MapItem(body.items[q - p]))
                    ELSE calls[q]]
  /\ UNCHANGED service

\* POST /sync: Promise.all settles, rejected by a call that failed or
\* fulfilled when every call has succeeded
syncSettled(p) ==
  /\ calls[p].route = "sync" /\ calls[p].pc = "all"
  /\ LET kids == {q \in Procs : calls[q].parent = p}
     IN \/ \E q \in kids :
             /\ calls[q].pc = "done" /\ calls[q].result # "ok"
             /\ calls' = [calls EXCEPT ![p] =
                            Reply(@, syncCatch(calls[q].result), calls[q].result)]
        \/ /\ \A q \in kids : calls[q].pc = "done" /\ calls[q].result = "ok"
           /\ calls' = [calls EXCEPT ![p] = Reply(@, 200, "ok")]
  /\ UNCHANGED service

HttpSheets ==
  { <<<<"Post ID", "Status", "Topic">>, <<"x", "Draft", "t0">>>>,
    <<<<"Post ID", "Status", "Approved By">>, <<"x", "Draft">>>> }

\* the id, status and feedback of the bodies of POST /status; "" is a field
\* the body lacks
HttpIds == {"x", "q", ""}
HttpStatuses == {"Approved", "Done", ""}
HttpFeedbacks == {"", "f"}

HttpItems ==
  { ("id" :> "x") @@ ("status" :> "Done"),
    ("id" :> "x") @@ ("topic" :> "T"),
    ("id" :> "q") @@ ("status" :> "Done") }

\* the bodies of POST /sync: items is no array, or an array of items
SyncBodies ==
  {[isArray |-> FALSE, items |-> <<>>]}
    \cup {[isArray |-> TRUE, items |-> is] :
            is \in UNION {[1..k -> HttpItems] : k \in 0..(MaxCalls - 1)}}

InitHttp ==
  /\ sheet \in HttpSheets
  /\ AfterInitialize
  /\ lastSyncTime = NoTime
  /\ clock = 1
  /\ calls = [p \in Procs |-> Idle]
  /\ stopped = FALSE
  /\ initAfterStop = FALSE
  /\ lastWriter = 0

NextHttp ==
  \/ \E p \in Procs : \E id \in HttpIds : \E st \in HttpStatuses :
       \E fb \in HttpFeedbacks : postStatus(p, id, st, fb)
  \/ \E p \in Procs : statusGot(p)
  \/ \E p \in Procs : statusUpdated(p)
  \/ \E p \in Procs : \E body \in SyncBodies : postSync(p, body)
  \/ \E p \in Procs : syncSettled(p)
  \/ \E p \in Procs : updateContent(p, "x", PatchT)
  \/ \E p \in Procs : syncSheetRead(p)
  \/ \E p \in Procs : updateContentRead(p)
  \/ \E p \in Procs : updateContentWrite(p)

SpecHttp == InitHttp /\ [][NextHttp]_vars

---------------------------------------------------------------------------
(* Updates on a sheet that another actor edits: rows are inserted, removed
   and moved in the spreadsheet at any moment, also between the read and the
   write of an update. *)

\* a row is inserted so that it becomes row r
extInsert(r, row) ==
  /\ Len(sheet) <= MaxRows
  /\ r \in 2..(Len(sheet) + 1)
  /\ sheet' = SubSeq(sheet, 1, r - 1) \o <<row>> \o SubSeq(sheet, r, Len(sheet))
  /\ UNCHANGED <<calls, sheets, sheetTitle, columnHeaders, syncInterval,
                 lastSyncTime, timers, nextTimer, clock, facade, stopped,
                 initAfterStop, lastWriter>>

\* row r is removed, the rows below it move up
extRemove(r) ==
  /\ r \in 2..Len(sheet)
  /\ sheet' = SubSeq(sheet, 1, r - 1) \o SubSeq(sheet, r + 1, Len(sheet))
  /\ UNCHANGED <<calls, sheets, sheetTitle, columnHeaders, syncInterval,
                 lastSyncTime, timers, nextTimer, clock, facade, stopped,
                 initAfterStop, lastWriter>>

\* rows r and r + 1 change places
extMove(r) ==
  /\ r \in 2..(Len(sheet) - 1)
  /\ sheet[r] # sheet[r + 1]
  /\ sheet' = [sheet EXCEPT ![r] = sheet[r + 1], ![r + 1] = sheet[r]]
  /\ UNCHANGED <<calls, sheets, sheetTitle, columnHeaders, syncInterval,
                 lastSyncTime, timers, nextTimer, clock, facade, stopped,
                 initAfterStop, lastWriter>>

ExtSheets ==
  { <<<<"Post ID", "Status">>, <<"x", "Draft">>>>,
    <<<<"Post ID", "Status">>, <<"y", "Draft">>, <<"x", "Draft">>>> }

\* the row the other actor inserts
ExtRows == { <<"z", "New">> }

InitExt ==
  /\ sheet \in ExtSheets
  /\ AfterInitialize
  /\ lastSyncTime = NoTime
  /\ clock = 1
  /\ calls = [p \in Procs |-> Idle]
  /\ stopped = FALSE
  /\ initAfterStop = FALSE
  /\ lastWriter = 0

NextExt ==
  \/ \E p \in Procs : updateContent(p, "x", PatchA)
  \/ \E p \in Procs : updateContentRead(p)
  \/ \E p \in Procs : updateContentWrite(p)
  \/ \E r \in 2..(MaxRows + 1) : \E row \in ExtRows : extInsert(r, row)
  \/ \E r \in 2..(MaxRows + 1) : extRemove(r)
  \/ \E r \in 2..(MaxRows + 1) : extMove(r)

SpecExt == InitExt /\ [][NextExt]_vars

---------------------------------------------------------------------------
(* Schemas of every length up to MaxCols: a sync and an update on a sheet
   whose row 1 has n columns, by a caller that awaits each call. *)

\* a header row of n columns
Header(n) == [i \in 1..n |-> IF i = 1 THEN IdField ELSE ToString(i)]

ColsSheets == {<<Header(n), <<"a">>>> : n \in 1..MaxCols}

\* the label the sheet gives the column at position k (0-based) in A1
\* notation, as char codes: A..Z, AA, AB, ...
RECURSIVE ColumnLabel(_)
ColumnLabel(k) ==
  IF k < 26 THEN <<65 + k>>
  ELSE ColumnLabel((k \div 26) - 1) \o <<65 + (k % 26)>>

InitCols ==
  /\ sheet \in ColsSheets
  /\ AfterInitialize
  /\ lastSyncTime = NoTime
  /\ clock = 1
  /\ calls = [p \in Procs |-> Idle]
  /\ stopped = FALSE
  /\ initAfterStop = FALSE
  /\ lastWriter = 0

NextCols ==
  \/ \E p \in Procs : Quiet /\ syncSheet(p)
  \/ \E p \in Procs : Quiet /\ updateContent(p, "a", PatchA)
  \/ \E p \in Procs : syncSheetRead(p)
  \/ \E p \in Procs : updateContentRead(p)
  \/ \E p \in Procs : updateContentWrite(p)
  \/ \E p \in Procs : Return(p)

SpecCols == InitCols /\ [][NextCols]_vars

---------------------------------------------------------------------------
(* The lifecycle claims, under Spec. *)

DataOps == {"syncSheet", "getContentById", "updateContent"}

\* C9: sync, getById and update reach the remote sheet only when the facade is
\* Ready: a call made when initialization was never attempted triggers it and
\* proceeds (so it does not end with the not-initialized error), and a call
\* made while initialization is in progress or after it failed ends with the
\* not-initialized error before any remote request of its own.
C9_OnlyWhenReady ==
  \A p \in Procs :
    calls[p].op \in DataOps =>
      /\ calls[p].bornIn = "Uninitialized" => calls[p].result # "NotInitialized"
      /\ calls[p].bornIn \in {"Initializing", "Failed"} =>
           calls[p].result = "NotInitialized"

\* C10: once shutdown() has returned, and with no initialize() called after
\* it, no periodic timer is active (so no tick is scheduled or fires), in
\* every interleaving with an initialize() in flight at the shutdown.
C10_NoTimerAfterShutdown ==
  (stopped /\ ~initAfterStop) => timers = {}

\* C11: a periodic sync that fails ends in the callback's catch: the step
\* that ends it leaves the timer and the field naming it as they were, and as
\* long as shutdown has not been called a timer is active afterwards, so that
\* the interval fires again.
C11_FailedTickKeepsTimer ==
  [][\A p \in Procs :
       ( /\ calls[p].op = "tick" /\ calls[p].pc # "done"
         /\ calls'[p].pc = "done" /\ calls'[p].result # "ok" )
       => ( /\ timers' = timers
            /\ syncInterval' = syncInterval
            /\ (~stopped' => syncInterval' \in timers') )]_vars

\* two periodic syncs have failed, no shutdown, and the timer is active
C11_Witness ==
  /\ \A p \in Procs :
       calls[p].op = "tick" /\ calls[p].pc = "done" /\ calls[p].result = "RemoteError"
  /\ ~stopped
  /\ syncInterval \in timers

\* C12: an empty column list is never cached as the schema, and on a sheet
\* whose row 1 is empty the facade is never Ready.
C12_EmptyHeaderRowFails ==
  /\ columnHeaders.loaded => columnHeaders.cols # <<>>
  /\ HeaderRow(sheet) = <<>> => facade # "Ready"

\* C15: a step of an initialize() call starts a timer only when it is the
\* step that ends the call with success, after the probe has answered (the
\* title is known) and with the headers loaded by it; a step that ends the
\* call with an error leaves the facade Failed and starts no timer.
C15_TimerAfterProbeAndLoad ==
  [][\A p \in Procs :
       (calls'[p].op = "initialize" /\ calls'[p].pc # calls[p].pc) =>
         /\ (timers' # timers \/ nextTimer' # nextTimer \/ syncInterval' # syncInterval)
              => ( /\ calls[p].pc = "headers" /\ sheetTitle # NullVal
                   /\ calls'[p].result = "ok" /\ columnHeaders'.loaded )
         /\ calls'[p].result = "ok" => syncInterval' \in timers' \ timers
         /\ calls'[p].result = "RemoteError"
              => ( /\ facade' = "Failed"
                   /\ timers' = timers /\ nextTimer' = nextTimer
                   /\ syncInterval' = syncInterval )]_vars

\* one initialize() has failed and another has succeeded: one timer is active
C15_Witness ==
  \E p \in Procs : \E q \in Procs :
    /\ calls[p].op = "initialize" /\ calls[p].result = "RemoteError"
    /\ calls[q].op = "initialize" /\ calls[q].result = "ok"
    /\ sheetTitle # NullVal
    /\ Cardinality(timers) = 1

\* C18: a step changes the last-sync timestamp only when it is the step in
\* which a sync() (called directly, by getById or by the timer) completes
\* with success.
C18_OnlySyncStamps ==
  [][lastSyncTime' # lastSyncTime =>
       \E p \in Procs :
         /\ calls[p].op \in {"syncSheet", "getContentById", "tick"}
         /\ calls[p].pc = "read"
         /\ calls'[p].pc = "done" /\ calls'[p].result = "ok"]_vars

\* C19: at most one interval is active at any time, and it is the one
\* this.syncInterval names: every interval created earlier has been cleared.
C19_OneTimer ==
  /\ Cardinality(timers) <= 1
  /\ timers \subseteq {syncInterval}

\* two initialize() calls have both succeeded, each has installed an
\* interval, and only the second interval is active
C19_Witness ==
  /\ nextTimer > 2
  /\ timers = {syncInterval}
  /\ \E p \in Procs : \E q \in Procs :
       /\ p # q
       /\ calls[p].op = "initialize" /\ calls[p].result = "ok"
       /\ calls[q].op = "initialize" /\ calls[q].result = "ok"

---------------------------------------------------------------------------
(* The claims about single calls, under SpecOps. *)

\* row r of a sheet, empty where the sheet has none
RowAt(sh, r) == IF r >= 1 /\ r <= Len(sh) THEN sh[r] ELSE <<>>

\* id is the first-column value of a row after the header row
IdInDataRows(sh, id) == \E r \in 2..Len(sh) : Cell(sh[r], 1) = id

\* the value a record shows for a cell
Shown(v) == IF v = "" THEN NullVal ELSE v

UpdateDone(p) ==
  calls[p].op = "updateContent" /\ calls[p].pc = "done" /\ calls[p].result = "ok"

\* C2: when the read of an update answers and its identifier is the
\* first-column value of no row after the header row, the call ends there
\* with the not-found error: no write is requested and the sheet is as before.
C2_NotFoundNoWrite ==
  [][\A p \in Procs :
       ( /\ calls[p].op = "updateContent" /\ calls[p].pc = "read"
         /\ calls'[p].pc # "read" /\ calls'[p].result # "RemoteError"
         /\ ~IdInDataRows(sheet, calls[p].id) )
       => ( /\ calls'[p].pc = "done"
            /\ calls'[p].result = "NotFound"
            /\ sheet' = sheet )]_vars

C2_Witness ==
  \E p \in Procs :
    /\ calls[p].op = "updateContent" /\ calls[p].result = "NotFound"
    /\ calls[p].id = IdField /\ HeaderRow(sheet)[1] = IdField
    /\ Len(sheet) >= 2

\* C5: a successful sync returns one record per row after the header row, in
\* row order; each record's fields are the schema's columns, the field named
\* Schema[i] holding the cell at position i, and null for a blank or missing
\* cell.
C5_OneRecordPerRow ==
  \A p \in Procs :
    (calls[p].op = "syncSheet" /\ calls[p].pc = "done" /\ calls[p].result = "ok") =>
      LET schema == calls[p].headers
          sh == calls[p].snap
          got == calls[p].value
      IN /\ Len(got) = (IF Len(sh) = 0 THEN 0 ELSE Len(sh) - 1)
         /\ \A r \in 1..Len(got) :
              /\ DOMAIN got[r] = Range(schema)
              /\ \A i \in 1..Len(schema) :
                   got[r][schema[i]] = Shown(Cell(sh[r + 1], i))

C5_Witness ==
  \E p \in Procs :
    /\ calls[p].op = "syncSheet" /\ calls[p].pc = "done" /\ calls[p].result = "ok"
    /\ Len(calls[p].value) = 2
    /\ Len(calls[p].headers) = 3
    /\ Len(calls[p].snap[2]) = 0
    /\ Len(calls[p].snap[3]) = 1
    /\ calls[p].value[2]["Topic"] = NullVal

\* C6: getById(id) finds a record exactly when update(id, ...) would locate a
\* row in the same sheet (the first row after the header row whose first cell
\* is id, whatever the first column is called), and it is that row's record.
C6_FindsWhatUpdateLocates ==
  \A p \in Procs :
    (calls[p].op = "getContentById" /\ calls[p].pc = "done" /\ calls[p].result = "ok") =>
      LET c == calls[p]
          all == ValuesGet(c.snap, 1, Len(c.headers))
          idx == FindRowIndex(all, c.id)
      IN /\ (c.value # <<>>) <=> (idx # -1)
         /\ idx # -1 => c.value = <<Item(c.headers, all[idx + 1])>>

\* C8: a sync whose remote read (of the header row or of the data rows) does
\* not succeed ends with the remote error and no records, and leaves the
\* last-sync timestamp as it was.
C8_FailedSyncKeepsTimestamp ==
  [][\A p \in Procs :
       ( /\ calls[p].op \in {"syncSheet", "getContentById", "tick"}
         /\ calls[p].pc \in {"load", "read"}
         /\ calls'[p].pc # "read" /\ calls'[p].result # "ok" )
       => ( /\ calls'[p].pc = "done"
            /\ calls'[p].result = "RemoteError"
            /\ calls'[p].value = <<>>
            /\ lastSyncTime' = lastSyncTime )]_vars

C8_Witness ==
  \E p \in Procs :
    /\ calls[p].op = "syncSheet" /\ calls[p].pc = "done"
    /\ calls[p].result = "RemoteError"
    /\ lastSyncTime # NoTime

\* C20: the write of an update, whatever its identifier (the header cell of
\* column A included) and its patch, goes to a row numbered 2 or more, and
\* row 1 is after the write what it was before.
C20_HeaderNeverWritten ==
  [][\A p \in Procs :
       ( /\ calls[p].op = "updateContent" /\ calls[p].pc = "write"
         /\ calls'[p].pc = "done" )
       => ( /\ RowNumber(calls[p].rowIndex) >= 2
            /\ RowAt(sheet', 1) = RowAt(sheet, 1) )]_vars

\* an update has changed row 2, the first row after the header row
C20_Witness ==
  \E p \in Procs :
    /\ UpdateDone(p)
    /\ RowNumber(calls[p].rowIndex) = 2
    /\ RowAt(calls[p].after, 2) # RowAt(calls[p].before, 2)
    /\ RowAt(calls[p].after, 1) = HeaderRow(calls[p].before)

---------------------------------------------------------------------------
(* The claims about updates among other calls, under SpecConc. *)

\* the position of column h in a schema that has it
Col(headers, h) == CHOOSE i \in 1..Len(headers) : headers[i] = h

\* the first n cells of a row, blank where it has none
Span(row, n) == [c \in 1..n |-> Cell(row, c)]

\* C1: update(id, patch) then getById(id), with no other writer from the
\* update's read to the lookup's read, returns a record in which every schema
\* column of the patch shows the patched value (null for a cleared field) and
\* every other schema column shows what it showed before the update.
C1_FieldPreservation ==
  \A u \in Procs : \A g \in Procs :
    ( /\ UpdateDone(u)
      /\ calls[u].before = calls[u].snap
      /\ calls[g].op = "getContentById" /\ calls[g].id = calls[u].id
      /\ calls[g].pc = "done" /\ calls[g].result = "ok"
      /\ calls[g].snap = calls[u].after )
    => LET c == calls[u]
           old == c.snap[c.rowIndex + 1]
       IN /\ calls[g].value # <<>>
          /\ \A i \in 1..Len(c.headers) :
               calls[g].value[1][c.headers[i]] =
                 IF c.headers[i] \in DOMAIN c.updates
                   THEN Shown(c.updates[c.headers[i]])
                   ELSE Shown(Cell(old, i))

\* C3: two updates of the same identifier, one with {Status: A} and one with
\* {Status: B}, both done: the row holds the Status of the write committed
\* last, and its cells over the schema's columns are the row one of the two
\* calls wrote.
C3_LastWriteWins ==
  \A u1 \in Procs : \A u2 \in Procs :
    ( /\ u1 # u2 /\ UpdateDone(u1) /\ UpdateDone(u2)
      /\ calls[u1].id = calls[u2].id
      /\ calls[u1].updates = PatchA /\ calls[u2].updates = PatchB
      /\ lastWriter \in {u1, u2} )
    => LET w == calls[lastWriter]
           row == RowAt(sheet, w.rowIndex + 1)
       IN /\ Cell(row, Col(w.headers, "Status")) = w.updates["Status"]
          /\ Span(row, Len(w.headers)) \in {calls[u1].newRowData, calls[u2].newRowData}

C3_Witness ==
  \E u1 \in Procs : \E u2 \in Procs :
    /\ u1 # u2 /\ UpdateDone(u1) /\ UpdateDone(u2)
    /\ calls[u1].updates = PatchA /\ calls[u2].updates = PatchB
    /\ u1 \notin calls[u2].saw /\ u2 \notin calls[u1].saw
    /\ lastWriter = u1

\* C4: two updates of the same identifier that patch different columns, o
\* committed first and w right after it.  The row holds w's patched value.
\* When w read before o's write was committed, the column o patched is back
\* to the value w had read (lost update); when w read after it, the column o
\* patched keeps o's value.
C4_LostUpdate ==
  \A o \in Procs : \A w \in Procs :
    ( /\ o # w /\ UpdateDone(o) /\ UpdateDone(w)
      /\ calls[o].id = calls[w].id
      /\ DOMAIN calls[o].updates \cap DOMAIN calls[w].updates = {}
      /\ lastWriter = w
      /\ calls[w].prev = o )
    => LET row == RowAt(sheet, calls[w].rowIndex + 1)
           hs == calls[w].headers
       IN /\ \A h \in DOMAIN calls[w].updates \cap Range(hs) :
               Cell(row, Col(hs, h)) = calls[w].updates[h]
          /\ \A h \in DOMAIN calls[o].updates \cap Range(hs) :
               Cell(row, Col(hs, h)) =
                 IF o \in calls[w].saw THEN calls[o].updates[h]
                 ELSE Cell(RowAt(calls[w].snap, calls[w].rowIndex + 1), Col(hs, h))

\* both reads came before either write, and the Status the first write set is
\* Draft again
C4_Witness ==
  \E o \in Procs : \E w \in Procs :
    /\ o # w /\ UpdateDone(o) /\ UpdateDone(w)
    /\ calls[o].updates = PatchA /\ calls[w].updates = PatchT
    /\ lastWriter = w /\ calls[w].prev = o
    /\ o \notin calls[w].saw /\ w \notin calls[o].saw
    /\ calls[o].snap = calls[w].snap
    /\ Len(calls[w].headers) = 3
    /\ Span(RowAt(sheet, calls[w].rowIndex + 1), 3) = <<"x", "Draft", "T">>

\* C7: the write of a successful update changes the one row its scan located,
\* which held the identifier when it was read, and there only the cells of
\* the schema's columns; every other row keeps all its cells.
C7_WritesOneRow ==
  [][\A p \in Procs :
       ( /\ calls[p].op = "updateContent" /\ calls[p].pc = "write"
         /\ calls'[p].pc = "done" /\ calls'[p].result = "ok" )
       => LET r == calls[p].rowIndex + 1
              n == Len(calls[p].headers)
          IN /\ r >= 2
             /\ Cell(RowAt(calls[p].snap, r), 1) = calls[p].id
             /\ \A k \in 1..(Len(sheet) + Len(sheet') + 1) :
                  k # r => RowAt(sheet', k) = RowAt(sheet, k)
             /\ \A c \in (n + 1)..(n + 2) :
                  Cell(RowAt(sheet', r), c) = Cell(RowAt(sheet, r), c)]_vars

C7_Witness ==
  \E p \in Procs :
    /\ UpdateDone(p)
    /\ calls[p].saw # {}
    /\ calls[p].rowIndex = 2
    /\ Len(calls[p].headers) = 2
    /\ calls[p].after # calls[p].before
    /\ Cell(RowAt(sheet, 3), 3) = "n"

---------------------------------------------------------------------------
(* The claims about the HTTP routes, under SpecHttp. *)

\* C13: every answered request of POST /status and of POST /sync has the
\* status code of its outcome's kind: 404 when an identifier was not found,
\* 400 when the body was invalid, 500 for every other failure (200 without
\* a failure).
C13_SameErrorMapping ==
  \A p \in Procs :
    calls[p].http # 0 =>
      calls[p].http =
        (LET kind == calls[p].cause
         IN IF kind = "ok" THEN 200
            ELSE IF kind = "Invalid" THEN 400
            ELSE IF kind = "NotFound" THEN 404
            ELSE 500)

\* C16: the write of a POST /status request leaves every column of its row
\* as the sheet had it when the write happened, except Status, the feedback
\* columns when feedback was given and the approval columns when the status
\* is Approved.
C16_StatusRoutePreserves ==
  \A p \in Procs :
    (calls[p].route = "status" /\ UpdateDone(p)) =>
      LET c == calls[p]
          r == RowNumber(c.rowIndex)
          may == {"Status"}
                   \cup (IF c.feedback # ""
                           THEN {"Last Feedback", "Last Feedback Date"} ELSE {})
                   \cup (IF c.status = "Approved"
                           THEN {"Date Approved", "Approved By"} ELSE {})
      IN \A i \in 1..Len(c.headers) :
           c.headers[i] \notin may =>
             Cell(RowAt(c.after, r), i) = Cell(RowAt(c.before, r), i)

---------------------------------------------------------------------------
(* The claim about updates on a sheet another actor edits, under SpecExt. *)

\* C14: the row an update has overwritten held the update's identifier in
\* column A at the moment of the write.
C14_WritesOwnRow ==
  \A p \in Procs :
    UpdateDone(p) =>
      Cell(RowAt(calls[p].before, RowNumber(calls[p].rowIndex)), 1) = calls[p].id

---------------------------------------------------------------------------
(* The claim about the ranges, under SpecCols. *)

\* C17: for a call of sync or update with a schema of n >= 1 columns, the
\* last column of the range it reads (and writes) is the sheet's label of
\* the column at position n - 1.
C17_RangeSpansSchema ==
  \A p \in Procs :
    (calls[p].pc \in {"read", "write"} /\ Len(calls[p].headers) >= 1) =>
      <<LastColCode(Len(calls[p].headers))>> = ColumnLabel(Len(calls[p].headers) - 1)


============================================================================
